---------------------------- MODULE Spec2Model ----------------------------
(***************************************************************************)
(* A model of the two migration scripts of PegasusSimulator:               *)
(*   migrate_to_isaac_4.5.py        (MigrationTool, run_migration)         *)
(*   fix_ardupilot_for_isaac_4.5.py (fix_vehicle_file, fix_multirotor_file)*)
(*                                                                         *)
(* File contents are sequences of tokens (words of the text).  A regular   *)
(* expression is a sequence of pattern elements matched by backtracking as *)
(* Python's re module does; re.sub and re.findall scan left to right over  *)
(* non-overlapping matches.  The file system is a function from the paths  *)
(* that exist to their contents.                                           *)
(***************************************************************************)
EXTENDS Integers, Sequences, FiniteSets, TLC

(***************************************************************************)
(* Bounds of the exploration.                                              *)
(***************************************************************************)
\* at most this many file operations fail in one run
MaxFailures == 1

\* the longest text the rules are applied to on their own
MaxLen == 3

MaxStatements == 3

MaxSteps == 2

(***************************************************************************)
(* Regular expressions over token sequences.                               *)
(***************************************************************************)
\* a literal token
Lit(t) == [k |-> "lit", t |-> t]
\* t* : zero or more t, greedy (the \s* of the TOML pattern)
Star(t) == [k |-> "star", t |-> t]
\* .*? under re.DOTALL: any tokens, as few as possible
LazyAny == [k |-> "lazy", t |-> ""]

\* the elements of a list
Range(seq) == {seq[i] : i \in 1..Len(seq)}

\* a pattern that re cannot compile, such as one with an unbalanced "(":
\* re.findall and re.sub raise re.error on it
Malformed == <<[k |-> "bad", t |-> "("]>>

IsMalformed(pat) == \E j \in 1..Len(pat) : pat[j].k = "bad"

\* a pattern that is a plain sequence of literal tokens
Literal(ts) == [i \in 1..Len(ts) |-> Lit(ts[i])]

\* The length of the match of pat from its j-th element on, at position i
\* of s, that a backtracking matcher finds first; -1 when there is none.
RECURSIVE MatchFrom(_, _, _, _)
MatchFrom(pat, j, s, i) ==
    IF j > Len(pat) THEN 0
    ELSE CASE pat[j].k = "lit" ->
                IF i <= Len(s) /\ s[i] = pat[j].t
                THEN LET r == MatchFrom(pat, j + 1, s, i + 1)
                     IN  IF r = -1 THEN -1 ELSE r + 1
                ELSE -1
           [] pat[j].k = "star" ->
                LET more == IF i <= Len(s) /\ s[i] = pat[j].t
                            THEN MatchFrom(pat, j, s, i + 1)
                            ELSE -1
                IN  IF more # -1 THEN more + 1 ELSE MatchFrom(pat, j + 1, s, i)
           [] OTHER ->
                LET none == MatchFrom(pat, j + 1, s, i)
                IN  IF none # -1 THEN none
                    ELSE IF i > Len(s) THEN -1
                    ELSE LET r == MatchFrom(pat, j, s, i + 1)
                         IN  IF r = -1 THEN -1 ELSE r + 1

\* the length of the match of pat at position i of s, or -1
MatchLen(pat, s, i) == MatchFrom(pat, 1, s, i)

\* the matches of pat in s from position i on
RECURSIVE FindFrom(_, _, _)
FindFrom(pat, s, i) ==
    IF i > Len(s) THEN <<>>
    ELSE LET m == MatchLen(pat, s, i)
         IN  IF m > 0
             THEN <<SubSeq(s, i, i + m - 1)>> \o FindFrom(pat, s, i + m)
             ELSE FindFrom(pat, s, i + 1)

\* re.findall(pat, s): the non-overlapping matches, leftmost first
findall(pat, s) == FindFrom(pat, s, 1)

\* s from position i on with every match replaced by repl
RECURSIVE SubFrom(_, _, _, _)
SubFrom(pat, repl, s, i) ==
    IF i > Len(s) THEN <<>>
    ELSE LET m == MatchLen(pat, s, i)
         IN  IF m > 0
             THEN repl \o SubFrom(pat, repl, s, i + m)
             ELSE <<s[i]>> \o SubFrom(pat, repl, s, i + 1)

\* re.sub(pat, repl, s): every non-overlapping match replaced by repl
sub(pat, repl, s) == SubFrom(pat, repl, s, 1)

\* needle in haystack, for sequences of tokens
Contains(hay, needle) ==
    \E i \in 1..Len(hay) : hay[i] = needle

\* str.lower() on one token: the spellings of the flagged word fold to one
LowerTok(t) ==
    CASE t = "ArduPilot" -> "ardupilot"
      [] t = "Ardupilot" -> "ardupilot"
      [] t = "ARDUPILOT" -> "ardupilot"
      [] t = "World" -> "world"
      [] t = "Camera" -> "camera"
      [] t = "UsdGeom" -> "usdgeom"
      [] OTHER -> t

\* content.lower()
lower(s) == [i \in 1..Len(s) |-> LowerTok(s[i])]

(***************************************************************************)
(* The rule tables of migrate_to_isaac_4.5.py.                             *)
(***************************************************************************)
Rule(old, new) == [old_pattern |-> old, new_pattern |-> new]

\* A variant of the table whose second rule writes the module name the
\* first rule looks for, so that a second pass finds work the first made.
PYTHON_REPLACEMENTS_chained ==
    << Rule(Literal(<<"from", "omni.isaac.core.world", "import", "World">>),
            <<"from", "isaacsim.core.api.world", "import", "World">>),
       Rule(Literal(<<"from", "omni.isaac.core", "import", "World">>),
            <<"from", "omni.isaac.core.world", "import", "World">>),
       Rule(Literal(<<"from", "omni.isaac.core.objects", "import">>),
            <<"from", "isaacsim.core.api.objects", "import">>),
       Rule(Literal(<<"from", "omni.isaac.dynamic_control", "import">>),
            <<"from", "isaacsim.core.dynamic_control", "import">>),
       Rule(Literal(<<"from", "omni.isaac.sensor", "import", "Camera">>),
            <<"from", "isaacsim.sensors.camera", "import", "Camera">>) >>

PYTHON_REPLACEMENTS ==
    << Rule(Literal(<<"from", "omni.isaac.core.world", "import", "World">>),
            <<"from", "isaacsim.core.api.world", "import", "World">>),
       Rule(Literal(<<"from", "omni.isaac.core", "import", "World">>),
            <<"from", "isaacsim.core.api", "import", "World">>),
       Rule(Literal(<<"from", "omni.isaac.core.objects", "import">>),
            <<"from", "isaacsim.core.api.objects", "import">>),
       Rule(Literal(<<"from", "omni.isaac.dynamic_control", "import">>),
            <<"from", "isaacsim.core.dynamic_control", "import">>),
       Rule(Literal(<<"from", "omni.isaac.sensor", "import", "Camera">>),
            <<"from", "isaacsim.sensors.camera", "import", "Camera">>) >>

\* '"omni\.isaac\.core"\s*=\s*\{\}'  ->  '"isaacsim.core.api" = {}'
TOML_REPLACEMENTS ==
    << Rule(<<Lit("\"omni.isaac.core\""), Star(" "), Lit("="), Star(" "), Lit("{}")>>,
            <<"\"isaacsim.core.api\"", " ", "=", " ", "{}">>) >>

\* A variant of the loop that takes the rules from the last to the first.
RECURSIVE ApplyFrom_reversed(_, _, _, _)
ApplyFrom_reversed(rules, i, content, changes) ==
    IF i > Len(rules)
    THEN [content |-> content, changes |-> changes, raised |-> FALSE]
    ELSE IF IsMalformed(rules[Len(rules) + 1 - i].old_pattern)
    THEN [content |-> content, changes |-> changes, raised |-> TRUE]
    ELSE LET r == rules[Len(rules) + 1 - i]
             matches == findall(r.old_pattern, content)
         IN  IF matches # <<>>
             THEN ApplyFrom_reversed(rules, i + 1,
                                     sub(r.old_pattern, r.new_pattern, content),
                                     Append(changes, [rule |-> i, first |-> matches[1]]))
             ELSE ApplyFrom_reversed(rules, i + 1, content, changes)

\* A variant of the loop that notes a rule as matched only when its
\* substitution changed the text.
RECURSIVE ApplyFrom_net(_, _, _, _)
ApplyFrom_net(rules, i, content, changes) ==
    IF i > Len(rules)
    THEN [content |-> content, changes |-> changes, raised |-> FALSE]
    ELSE IF IsMalformed(rules[i].old_pattern)
    THEN [content |-> content, changes |-> changes, raised |-> TRUE]
    ELSE LET matches == findall(rules[i].old_pattern, content)
             result == sub(rules[i].old_pattern, rules[i].new_pattern, content)
         IN  IF matches # <<>> /\ result # content
             THEN ApplyFrom_net(rules, i + 1, result,
                                Append(changes, [rule |-> i, first |-> matches[1]]))
             ELSE ApplyFrom_net(rules, i + 1, content, changes)

\* The replacement loop of migrate_python_file and migrate_toml_file:
\* each rule in list order against the content the earlier rules left.
\* changes lists, per rule that matched, its index and its first match.
RECURSIVE ApplyFrom(_, _, _, _)
ApplyFrom(rules, i, content, changes) ==
    IF i > Len(rules)
    THEN [content |-> content, changes |-> changes, raised |-> FALSE]
    ELSE IF IsMalformed(rules[i].old_pattern)
    THEN [content |-> content, changes |-> changes, raised |-> TRUE]
    ELSE LET matches == findall(rules[i].old_pattern, content)
         IN  IF matches # <<>>
             THEN ApplyFrom(rules, i + 1,
                            sub(rules[i].old_pattern, rules[i].new_pattern, content),
                            Append(changes, [rule |-> i, first |-> matches[1]]))
             ELSE ApplyFrom(rules, i + 1, content, changes)

ApplyReplacements(rules, content) == ApplyFrom(rules, 1, content, <<>>)

\* A variant of the scan that looks for the spelling "ArduPilot" only.
HasArduPilotReference_exact(content) == Contains(content, "ArduPilot")

\* 'ardupilot' in content.lower() or 'ArduPilot' in content
HasArduPilotReference(content) ==
    Contains(lower(content), "ardupilot") \/ Contains(content, "ArduPilot")

(***************************************************************************)
(* The text rewriting of fix_ardupilot_for_isaac_4.5.py.                   *)
(***************************************************************************)
\* r'from omni\.isaac\.dynamic_control import _dynamic_control'
dynamic_control_pattern ==
    Literal(<<"from", "omni.isaac.dynamic_control", "import", "_dynamic_control">>)

\* A variant of the replacement of Fix 1 that names another package than
\* the migration's rule for the same import.
dynamic_control_replacement_other ==
    <<"from", "isaacsim.dynamic_control", "import", "_dynamic_control">>

\* 'from isaacsim.core.dynamic_control import _dynamic_control'
dynamic_control_replacement ==
    <<"from", "isaacsim.core.dynamic_control", "import", "_dynamic_control">>

\* r'def get_world_transform_xform\(prim: Usd\.Prim\):.*?return rotation'
func_pattern ==
    <<Lit("def get_world_transform_xform(prim: Usd.Prim):"), LazyAny,
      Lit("return rotation")>>

\* the replacement function: its header, its local import and its body,
\* which ends in "return transform.GetRotation()"
new_function ==
    <<"def get_world_transform_xform(prim: Usd.Prim):",
      "from", "pxr", "import", "UsdGeom",
      "return transform.GetRotation()">>

\* Fix 1 then Fix 2 of fix_vehicle_file
FixVehicleContent(content) ==
    sub(func_pattern, new_function,
        sub(dynamic_control_pattern, dynamic_control_replacement, content))

\* the one fix of fix_multirotor_file
FixMultirotorContent(content) ==
    sub(dynamic_control_pattern, dynamic_control_replacement, content)

(***************************************************************************)
(* Paths.  Two of the nineteen python targets are kept, the two that the   *)
(* ArduPilot fixer rewrites as well, and the one TOML target.              *)
(***************************************************************************)
vehicle_path ==
    "extensions/pegasus.simulator/pegasus/simulator/logic/vehicles/vehicle.py"

multirotor_path ==
    "extensions/pegasus.simulator/pegasus/simulator/logic/vehicles/multirotor.py"

extension_toml ==
    "extensions/pegasus.simulator/config/extension.toml"

FILES_TO_MIGRATE ==
    [python |-> <<vehicle_path, multirotor_path>>,
     toml |-> <<extension_toml>>]

\* run_migration's order: the python list, then the toml list
Targets == FILES_TO_MIGRATE.python \o FILES_TO_MIGRATE.toml

TargetSet == {Targets[i] : i \in 1..Len(Targets)}

IsPython(p) == \E i \in 1..Len(FILES_TO_MIGRATE.python) : FILES_TO_MIGRATE.python[i] = p

\* filepath.with_suffix(filepath.suffix + '.bak')
BakPath(p) ==
    CASE p = vehicle_path ->
           "extensions/pegasus.simulator/pegasus/simulator/logic/vehicles/vehicle.py.bak"
      [] p = multirotor_path ->
           "extensions/pegasus.simulator/pegasus/simulator/logic/vehicles/multirotor.py.bak"
      [] p = extension_toml ->
           "extensions/pegasus.simulator/config/extension.toml.bak"

\* filepath.with_suffix('.py.ardupilot_backup')
ArduPilotBackupPath(p) ==
    CASE p = vehicle_path ->
           "extensions/pegasus.simulator/pegasus/simulator/logic/vehicles/vehicle.py.ardupilot_backup"
      [] p = multirotor_path ->
           "extensions/pegasus.simulator/pegasus/simulator/logic/vehicles/multirotor.py.ardupilot_backup"

\* the targets of the fixer's main, in its order
FixTargets == <<vehicle_path, multirotor_path>>

(***************************************************************************)
(* File system operations.  io names what the environment does to the      *)
(* handler's file operations: nothing, or the failure of one of them,      *)
(* which raises and leaves the file it was about as it was.                *)
(***************************************************************************)
IO == {"ok", "read_error", "copy_error", "write_error"}

\* the tree with path p holding content c
WriteTo(files, p, c) ==
    [q \in (DOMAIN files) \cup {p} |-> IF q = p THEN c ELSE files[q]]

\* shutil.copy2(src, dst): raises, or copies
copy2(files, src, dst, io) ==
    IF io = "copy_error" THEN [fs |-> files, raised |-> TRUE]
    ELSE [fs |-> WriteTo(files, dst, files[src]), raised |-> FALSE]

\* with open(filepath, 'w') as f: f.write(content): raises, or writes
write_file(files, filepath, content, io) ==
    IF io = "write_error" THEN [fs |-> files, raised |-> TRUE]
    ELSE [fs |-> WriteTo(files, filepath, content), raised |-> FALSE]

(***************************************************************************)
(* Initial trees.  Each target is absent or holds one of a few contents    *)
(* built from the statements the two scripts look at.  vehicle.py may come *)
(* with a vehicle.py.bak left by a migration of an older version of it.    *)
(***************************************************************************)
world_import == <<"from", "omni.isaac.core.world", "import", "World">>

core_import == <<"from", "omni.isaac.core", "import", "World">>

objects_import == <<"from", "omni.isaac.core.objects", "import", "DynamicCuboid">>

camera_import == <<"from", "omni.isaac.sensor", "import", "Camera">>

dynamic_control_import ==
    <<"from", "omni.isaac.dynamic_control", "import", "_dynamic_control">>

migrated_import == <<"from", "isaacsim.core.api", "import", "World">>

old_function ==
    <<"def get_world_transform_xform(prim: Usd.Prim):", "return rotation">>

PyContents ==
    { \* mentions ArduPilot, nothing to rewrite
      <<"ArduPilot">> \o migrated_import,
      \* each script rewrites its part
      world_import \o old_function,
      \* both scripts rewrite it alike
      dynamic_control_import,
      \* mentions ArduPilot in another letter case, three rules match
      <<"Ardupilot">> \o camera_import \o core_import \o objects_import }

TomlContents ==
    { <<"\"omni.isaac.core\"", "=", "{}">>,
      <<"\"isaacsim.core.api\"", " ", "=", " ", "{}">>,
      <<"ardupilot", "\"omni.isaac.core\"", " ", " ", "=", "{}">> }

\* the content of a backup left by an earlier migration
stale_backup == <<"from", "omni.isaac.core", "import", "World">>

\* a file that is absent, or present with one of contents
Choices(contents) ==
    {[present |-> FALSE, content |-> <<>>]} \cup
    {[present |-> TRUE, content |-> c] : c \in contents}

MkTree(v, m, t, stale) ==
    LET present == (IF v.present THEN {vehicle_path} ELSE {}) \cup
                   (IF v.present /\ stale THEN {BakPath(vehicle_path)} ELSE {}) \cup
                   (IF m.present THEN {multirotor_path} ELSE {}) \cup
                   (IF t.present THEN {extension_toml} ELSE {})
    IN  [p \in present |->
            IF p = vehicle_path THEN v.content
            ELSE IF p = multirotor_path THEN m.content
            ELSE IF p = extension_toml THEN t.content
            ELSE stale_backup]

Trees ==
    { MkTree(v, m, t, stale) :
        v \in Choices(PyContents), m \in Choices(PyContents),
        t \in Choices(TomlContents), stale \in BOOLEAN }

(***************************************************************************)
(* The per-file handlers.  Each yields the tree it leaves, the paths it    *)
(* wrote or created (written), what it printed (msgs), whether it raised,  *)
(* and whether the environment's failure io hit one of its file operations *)
(* (failed).                                                               *)
(***************************************************************************)
Msg(ev, file) == [ev |-> ev, file |-> file]

\* A variant of backup_file that copies whether or not the backup exists.
backup_file_overwriting(files, filepath, dry, nb, io) ==
    IF nb \/ dry THEN [fs |-> files, raised |-> FALSE, written |-> {}]
    ELSE [fs |-> copy2(files, filepath, BakPath(filepath), io).fs,
          raised |-> copy2(files, filepath, BakPath(filepath), io).raised,
          written |-> IF io = "copy_error" THEN {} ELSE {BakPath(filepath)}]

\* A variant of backup_file that pays no attention to no_backup.
backup_file_always(files, filepath, dry, nb, io) ==
    IF dry THEN [fs |-> files, raised |-> FALSE, written |-> {}]
    ELSE IF BakPath(filepath) \notin DOMAIN files
         THEN [fs |-> copy2(files, filepath, BakPath(filepath), io).fs,
               raised |-> copy2(files, filepath, BakPath(filepath), io).raised,
               written |-> IF io = "copy_error" THEN {} ELSE {BakPath(filepath)}]
         ELSE [fs |-> files, raised |-> FALSE, written |-> {}]

\* MigrationTool.backup_file
backup_file(files, filepath, dry, nb, io) ==
    IF nb \/ dry THEN [fs |-> files, raised |-> FALSE, written |-> {}]
    ELSE IF BakPath(filepath) \notin DOMAIN files
         THEN [fs |-> copy2(files, filepath, BakPath(filepath), io).fs,
               raised |-> copy2(files, filepath, BakPath(filepath), io).raised,
               written |-> IF io = "copy_error" THEN {} ELSE {BakPath(filepath)}]
         ELSE [fs |-> files, raised |-> FALSE, written |-> {}]

\* the backup step of fix_vehicle_file and fix_multirotor_file
ardupilot_backup(files, filepath, io) ==
    IF ArduPilotBackupPath(filepath) \notin DOMAIN files
    THEN [fs |-> copy2(files, filepath, ArduPilotBackupPath(filepath), io).fs,
          raised |-> copy2(files, filepath, ArduPilotBackupPath(filepath), io).raised,
          written |-> IF io = "copy_error" THEN {}
                      ELSE {ArduPilotBackupPath(filepath)}]
    ELSE [fs |-> files, raised |-> FALSE, written |-> {}]

\* A variant of the block that writes the file in a dry run too.
write_if_changed_in_dry_run(files, filepath, original_content, content, dry, nb, io) ==
    LET b == backup_file(files, filepath, dry, nb, io)
        w == write_file(b.fs, filepath, content, io)
    IN  IF content # original_content
        THEN IF b.raised \/ w.raised
             THEN [fs |-> b.fs, changed |-> FALSE, raised |-> TRUE,
                   failed |-> TRUE, written |-> b.written, msgs |-> <<>>]
             ELSE [fs |-> w.fs, changed |-> TRUE, raised |-> FALSE,
                   failed |-> FALSE, written |-> b.written \cup {filepath},
                   msgs |-> <<Msg("updated", filepath)>>]
        ELSE [fs |-> files, changed |-> FALSE, raised |-> FALSE,
              failed |-> FALSE, written |-> {},
              msgs |-> <<Msg("no_changes", filepath)>>]

\* A variant of the block that makes the backup before it compares the
\* texts, as fix_vehicle_file does.
write_if_changed_backup_first(files, filepath, original_content, content, dry, nb, io) ==
    LET b == backup_file(files, filepath, dry, nb, io)
        w == write_file(b.fs, filepath, content, io)
    IN  IF b.raised
        THEN [fs |-> b.fs, changed |-> FALSE, raised |-> TRUE,
              failed |-> TRUE, written |-> b.written, msgs |-> <<>>]
        ELSE IF content # original_content
        THEN IF ~dry
             THEN IF w.raised
                  THEN [fs |-> w.fs, changed |-> FALSE, raised |-> TRUE,
                        failed |-> TRUE, written |-> b.written, msgs |-> <<>>]
                  ELSE [fs |-> w.fs, changed |-> TRUE, raised |-> FALSE,
                        failed |-> FALSE, written |-> b.written \cup {filepath},
                        msgs |-> <<Msg("updated", filepath)>>]
             ELSE [fs |-> files, changed |-> TRUE, raised |-> FALSE,
                   failed |-> FALSE, written |-> {},
                   msgs |-> <<Msg("updated", filepath)>>]
        ELSE [fs |-> b.fs, changed |-> FALSE, raised |-> FALSE,
              failed |-> FALSE, written |-> b.written,
              msgs |-> <<Msg("no_changes", filepath)>>]

\* A variant of the block that catches a failing backup and writes the
\* file all the same.
write_if_changed_despite_backup(files, filepath, original_content, content, dry, nb, io) ==
    LET b == backup_file(files, filepath, dry, nb, io)
        w == write_file(b.fs, filepath, content, io)
    IN  IF content # original_content
        THEN IF ~dry
             THEN IF w.raised
                  THEN [fs |-> w.fs, changed |-> FALSE, raised |-> TRUE,
                        failed |-> TRUE, written |-> b.written, msgs |-> <<>>]
                  ELSE [fs |-> w.fs, changed |-> TRUE, raised |-> FALSE,
                        failed |-> b.raised, written |-> b.written \cup {filepath},
                        msgs |-> <<Msg("updated", filepath)>>]
             ELSE [fs |-> files, changed |-> TRUE, raised |-> FALSE,
                   failed |-> FALSE, written |-> {},
                   msgs |-> <<Msg("updated", filepath)>>]
        ELSE [fs |-> files, changed |-> FALSE, raised |-> FALSE,
              failed |-> FALSE, written |-> {},
              msgs |-> <<Msg("no_changes", filepath)>>]

\* "Write if changed", the last block of migrate_python_file and of
\* migrate_toml_file.  changed: the file is appended to changes_made.
write_if_changed(files, filepath, original_content, content, dry, nb, io) ==
    LET b == backup_file(files, filepath, dry, nb, io)
        w == write_file(b.fs, filepath, content, io)
    IN  IF content # original_content
        THEN IF ~dry
             THEN IF b.raised
                  THEN [fs |-> b.fs, changed |-> FALSE, raised |-> TRUE,
                        failed |-> TRUE, written |-> b.written, msgs |-> <<>>]
                  ELSE IF w.raised
                  THEN [fs |-> w.fs, changed |-> FALSE, raised |-> TRUE,
                        failed |-> TRUE, written |-> b.written, msgs |-> <<>>]
                  ELSE [fs |-> w.fs, changed |-> TRUE, raised |-> FALSE,
                        failed |-> FALSE, written |-> b.written \cup {filepath},
                        msgs |-> <<Msg("updated", filepath)>>]
             ELSE [fs |-> files, changed |-> TRUE, raised |-> FALSE,
                   failed |-> FALSE, written |-> {},
                   msgs |-> <<Msg("updated", filepath)>>]
        ELSE [fs |-> files, changed |-> FALSE, raised |-> FALSE,
              failed |-> FALSE, written |-> {},
              msgs |-> <<Msg("no_changes", filepath)>>]

\* A variant of the handlers' except clause that reports an unreadable
\* file as one that needs no changes.
ReadFailed_silent(files, filepath) ==
    [fs |-> files, warn |-> FALSE, changed |-> FALSE, raised |-> FALSE,
     failed |-> TRUE, written |-> {},
     msgs |-> <<Msg("processing", filepath), Msg("no_changes", filepath)>>]

\* what both migrate functions do when reading fails: print, and return
ReadFailed(files, filepath) ==
    [fs |-> files, warn |-> FALSE, changed |-> FALSE, raised |-> FALSE,
     failed |-> TRUE, written |-> {},
     msgs |-> <<Msg("processing", filepath), Msg("error_reading", filepath)>>]

\* re.findall raised re.error in the replacement loop: the handler is left
\* before its scan and its write, and nothing catches the exception
LoopRaised(files, filepath) ==
    [fs |-> files, warn |-> FALSE, changed |-> FALSE, raised |-> TRUE,
     failed |-> FALSE, written |-> {},
     msgs |-> <<Msg("processing", filepath)>>]

\* MigrationTool.migrate_python_file.  applied is what its replacement
\* loop makes of the file's text, Rewritten(files)[filepath].  warn: the
\* file is appended to warnings
migrate_python_file(files, filepath, applied, dry, nb, io) ==
    IF io = "read_error" THEN ReadFailed(files, filepath)
    ELSE IF applied.raised THEN LoopRaised(files, filepath)
    ELSE
    LET original_content == files[filepath]
        content == applied.content
        r == write_if_changed(files, filepath, original_content, content, dry, nb, io)
    IN  [fs |-> r.fs, warn |-> HasArduPilotReference(content),
         changed |-> r.changed, raised |-> r.raised, failed |-> r.failed,
         written |-> r.written,
         msgs |-> <<Msg("processing", filepath)>> \o r.msgs]

\* MigrationTool.migrate_toml_file: the TOML rules, and no scan for
\* ArduPilot references
migrate_toml_file(files, filepath, applied, dry, nb, io) ==
    IF io = "read_error" THEN ReadFailed(files, filepath)
    ELSE IF applied.raised THEN LoopRaised(files, filepath)
    ELSE
    LET original_content == files[filepath]
        content == applied.content
        r == write_if_changed(files, filepath, original_content, content, dry, nb, io)
    IN  [fs |-> r.fs, warn |-> FALSE,
         changed |-> r.changed, raised |-> r.raised, failed |-> r.failed,
         written |-> r.written,
         msgs |-> <<Msg("processing", filepath)>> \o r.msgs]

\* The body shared by fix_vehicle_file and fix_multirotor_file: read,
\* back up, rewrite (fixed is the rewritten text), write if the text
\* changed.  Nothing is caught.
fix_file(files, filepath, fixed, io) ==
    IF io = "read_error"
    THEN [fs |-> files, raised |-> TRUE, failed |-> TRUE, written |-> {},
          msgs |-> <<Msg("processing", filepath)>>]
    ELSE
    LET original_content == files[filepath]
        b == ardupilot_backup(files, filepath, io)
        w == write_file(b.fs, filepath, fixed, io)
    IN  IF b.raised
        THEN [fs |-> b.fs, raised |-> TRUE, failed |-> TRUE, written |-> b.written,
              msgs |-> <<Msg("processing", filepath)>>]
        ELSE IF fixed # original_content
        THEN IF w.raised
             THEN [fs |-> w.fs, raised |-> TRUE, failed |-> TRUE,
                   written |-> b.written,
                   msgs |-> <<Msg("processing", filepath)>>]
             ELSE [fs |-> w.fs, raised |-> FALSE, failed |-> FALSE,
                   written |-> b.written \cup {filepath},
                   msgs |-> <<Msg("processing", filepath), Msg("fixed", filepath)>>]
        ELSE [fs |-> b.fs, raised |-> FALSE, failed |-> FALSE,
              written |-> b.written,
              msgs |-> <<Msg("processing", filepath), Msg("no_changes", filepath)>>]

fix_vehicle_file(files, filepath, io) ==
    fix_file(files, filepath, FixVehicleContent(files[filepath]), io)

fix_multirotor_file(files, filepath, io) ==
    fix_file(files, filepath, FixMultirotorContent(files[filepath]), io)

(***************************************************************************)
(* State.  A run of either script is one step: the scripts are sequential  *)
(* programs and nothing else touches the tree while one runs.  The tree is *)
(* followed through any number of runs up to the first run in which a file *)
(* operation fails.                                                        *)
(***************************************************************************)
VARIABLES
    fs,             \* the tree: existing path -> content
    tool,           \* the script that ran last: "none", "migrate", "fix"
    pc,             \* how it ended: "idle" (none ran), "done", "raised"
    dry_run,        \* MigrationTool.dry_run of the last run
    no_backup,      \* MigrationTool.no_backup of the last run
    changes_made,   \* MigrationTool.changes_made after the last run
    warnings,       \* MigrationTool.warnings after the last run
    out,            \* what the last run printed
    written,        \* history: the paths the last run wrote or created
    fs0,            \* history: the initial tree
    start,          \* history: the tree when the last run started
    clean,          \* history: no file operation of the last run failed
    modified,       \* history: per target, who has rewritten it
    prev,           \* history: the outcome of the run before the last one
    unread,         \* history: the targets the last run could not read
    rule_list,      \* a rule list given to the replacement loop on its own
    text_in,        \* the text given to it
    text_out,       \* the text it made of it
    rule_matches,   \* the list "changes" it built
    steps,          \* history: the handlers called on one file, in order
    malformed       \* which pattern of the rule lists does not compile

textvars == <<rule_list, text_in, text_out, rule_matches, steps>>

filevars == <<fs, dry_run, no_backup, changes_made, warnings, out, written,
              fs0, start, clean, modified, prev, unread, malformed>>

vars == <<fs, tool, pc, dry_run, no_backup, changes_made, warnings, out, written,
          fs0, start, clean, modified, prev, unread, rule_list, text_in,
          text_out, rule_matches, steps, malformed>>

\* the paths a run printed as not found, in the order printed
Missing(o) ==
    LET nf == SelectSeq(o, LAMBDA m : m.ev = "not_found")
    IN  [i \in 1..Len(nf) |-> nf[i].file]

\* the files a run printed "Processing" for
Processed(o) == {o[i].file : i \in {j \in 1..Len(o) : o[j].ev = "processing"}}

\* What is kept of the run before the last one: of a dry migration that
\* returned without a failure its report, of a live one that it was one,
\* of any other run nothing.
NoRun ==
    [kind |-> "other", changes_made |-> <<>>, warnings |-> <<>>, missing |-> <<>>]

Outcome ==
    IF tool = "migrate" /\ pc = "done" /\ clean
    THEN IF dry_run
         THEN [kind |-> "dry", changes_made |-> changes_made,
               warnings |-> warnings, missing |-> Missing(out)]
         ELSE [kind |-> "live", changes_made |-> <<>>, warnings |-> <<>>,
               missing |-> <<>>]
    ELSE NoRun

\* The rule lists as the scripts define them: every pattern compiles.
WellFormed == [list |-> "none", at |-> 0]

\* The rule lists with one pattern replaced by one that does not compile
Malformations ==
    {[list |-> "python", at |-> i] : i \in DOMAIN PYTHON_REPLACEMENTS}
        \cup {[list |-> "toml", at |-> i] : i \in DOMAIN TOML_REPLACEMENTS}

\* the rule list of a category as a run finds it
RulesInForce(m, category) ==
    LET rules == IF category = "python" THEN PYTHON_REPLACEMENTS
                 ELSE TOML_REPLACEMENTS
    IN  IF m.list = category
        THEN [rules EXCEPT ![m.at] = Rule(Malformed, @.new_pattern)]
        ELSE rules

InitFiles ==
    /\ fs \in Trees
    /\ fs0 = fs
    /\ start = fs
    /\ tool = "none"
    /\ pc = "idle"
    /\ dry_run = FALSE
    /\ no_backup = FALSE
    /\ changes_made = <<>>
    /\ warnings = <<>>
    /\ out = <<>>
    /\ written = {}
    /\ clean = TRUE
    /\ modified = [p \in TargetSet |-> {}]
    /\ prev = NoRun
    /\ unread = {}
    /\ rule_list = <<>>
    /\ text_in = <<>>
    /\ text_out = <<>>
    /\ rule_matches = <<>>
    /\ steps = <<>>

Init ==
    /\ InitFiles
    /\ malformed = WellFormed

\* who rewrote a target in a run: the script by name when the run was live,
\* made backups and met no failure, "unprotected" otherwise
Rewriter(who, ok) == IF ok THEN who ELSE "unprotected"

NoteModified(f, g, who, ok) ==
    [p \in TargetSet |->
        IF p \in DOMAIN f /\ g[p] # f[p]
        THEN modified[p] \cup {Rewriter(who, ok)}
        ELSE modified[p]]

\* What the environment does to a run: plan[i] is what happens to the file
\* operations on the i-th target.  Hits(plan) counts the failures planned.
Hits(plan) == Cardinality({i \in DOMAIN plan : plan[i] # "ok"})

Plans(n) == {plan \in [1..n -> IO] : Hits(plan) <= MaxFailures}

MigrationPlans == Plans(Len(Targets))

\* the targets whose open or read raises under a plan
Unreadable(plan) == {Targets[i] : i \in {j \in DOMAIN plan : plan[j] = "read_error"}}

FixPlans == Plans(Len(FixTargets))

(***************************************************************************)
(* migrate_to_isaac_4.5.py: run_migration.                                 *)
(***************************************************************************)
\* What the replacement loop of migrate_python_file or migrate_toml_file
\* makes of each target's text.  No handler writes another target, so the
\* texts are those of the tree the run starts on.
Rewritten(files, m) ==
    [p \in TargetSet \cap DOMAIN files |->
        ApplyReplacements(RulesInForce(m, IF IsPython(p) THEN "python" ELSE "toml"),
                          files[p])]

\* the state a new MigrationTool starts run_migration in
NewTool(files) ==
    [fs |-> files, rewritten |-> Rewritten(files, malformed),
     changes_made |-> <<>>, warnings |-> <<>>, out |-> <<>>,
     written |-> {}, raised |-> FALSE, failed |-> 0]

\* A variant of the pass that does not test whether the target exists
\* and meets the missing file as a read error.
MigrateTarget_unchecked(st, p, dry, nb, io) ==
    IF p \notin DOMAIN st.fs
    THEN [st EXCEPT !.out = @ \o <<Msg("processing", p), Msg("error_reading", p)>>]
    ELSE LET r == IF IsPython(p)
                  THEN migrate_python_file(st.fs, p, st.rewritten[p], dry, nb, io)
                  ELSE migrate_toml_file(st.fs, p, st.rewritten[p], dry, nb, io)
         IN  [fs |-> r.fs,
              rewritten |-> st.rewritten,
              changes_made |-> IF r.changed THEN Append(st.changes_made, p)
                               ELSE st.changes_made,
              warnings |-> IF r.warn THEN Append(st.warnings, p) ELSE st.warnings,
              out |-> st.out \o r.msgs,
              written |-> st.written \cup r.written,
              raised |-> r.raised,
              failed |-> IF r.failed THEN st.failed + 1 ELSE st.failed]

\* A variant of the pass that puts each path at the head of the list it
\* is added to.
MigrateTarget_prepending(st, p, dry, nb, io) ==
    IF p \notin DOMAIN st.fs
    THEN [st EXCEPT !.out = <<Msg("not_found", p)>> \o @]
    ELSE LET r == IF IsPython(p)
                  THEN migrate_python_file(st.fs, p, st.rewritten[p], dry, nb, io)
                  ELSE migrate_toml_file(st.fs, p, st.rewritten[p], dry, nb, io)
         IN  [fs |-> r.fs,
              rewritten |-> st.rewritten,
              changes_made |-> IF r.changed THEN <<p>> \o st.changes_made
                               ELSE st.changes_made,
              warnings |-> IF r.warn THEN <<p>> \o st.warnings ELSE st.warnings,
              out |-> st.out \o r.msgs,
              written |-> st.written \cup r.written,
              raised |-> r.raised,
              failed |-> IF r.failed THEN st.failed + 1 ELSE st.failed]

\* one pass of a loop of run_migration, on target p
MigrateTarget(st, p, dry, nb, io) ==
    IF p \notin DOMAIN st.fs
    THEN [st EXCEPT !.out = Append(@, Msg("not_found", p))]
    ELSE LET r == IF IsPython(p)
                  THEN migrate_python_file(st.fs, p, st.rewritten[p], dry, nb, io)
                  ELSE migrate_toml_file(st.fs, p, st.rewritten[p], dry, nb, io)
         IN  [fs |-> r.fs,
              rewritten |-> st.rewritten,
              changes_made |-> IF r.changed THEN Append(st.changes_made, p)
                               ELSE st.changes_made,
              warnings |-> IF r.warn THEN Append(st.warnings, p) ELSE st.warnings,
              out |-> st.out \o r.msgs,
              written |-> st.written \cup r.written,
              raised |-> r.raised,
              failed |-> IF r.failed THEN st.failed + 1 ELSE st.failed]

\* the two loops of run_migration from target i on; an exception ends them
RECURSIVE MigrateFrom(_, _, _, _, _)
MigrateFrom(i, st, dry, nb, plan) ==
    IF st.raised \/ i > Len(Targets) THEN st
    ELSE MigrateFrom(i + 1, MigrateTarget(st, Targets[i], dry, nb, plan[i]),
                     dry, nb, plan)

\* run_migration: the loops, then the summary unless an exception left it
run_migration(tool0, dry, nb, plan) ==
    LET st == MigrateFrom(1, tool0, dry, nb, plan)
    IN  IF st.raised THEN st
        ELSE [st EXCEPT !.out = Append(@, Msg("summary", ""))]

\* main: a new MigrationTool(dry_run, no_backup), then run_migration
RunMigration ==
    /\ clean
    /\ \E tool0 \in {NewTool(fs)}, dry \in BOOLEAN, nb \in BOOLEAN,
          plan \in MigrationPlans :
        \E st \in {run_migration(tool0, dry, nb, plan)} :
            /\ st.failed = Hits(plan)
            /\ fs' = st.fs
            /\ tool' = "migrate"
            /\ pc' = IF st.raised THEN "raised" ELSE "done"
            /\ dry_run' = dry
            /\ no_backup' = nb
            /\ changes_made' = st.changes_made
            /\ warnings' = st.warnings
            /\ out' = st.out
            /\ written' = st.written
            /\ start' = fs
            /\ clean' = (st.failed = 0)
            /\ modified' = NoteModified(fs, st.fs, "migrate", ~nb /\ st.failed = 0)
            /\ prev' = Outcome
            /\ unread' = Unreadable(plan)
            /\ UNCHANGED <<fs0, textvars, malformed>>

(***************************************************************************)
(* fix_ardupilot_for_isaac_4.5.py: main.                                   *)
(***************************************************************************)
\* some path under extensions/pegasus.simulator exists
ExtensionsPopulated == DOMAIN fs # {}

\* the state main starts in
FixerStart(files) ==
    [fs |-> files, out |-> <<>>, written |-> {}, raised |-> FALSE, failed |-> 0]

\* main's handling of its i-th target: fix it if it exists
FixTarget(st, i, io) ==
    LET p == FixTargets[i]
    IN  IF p \notin DOMAIN st.fs
        THEN [st EXCEPT !.out = Append(@, Msg("not_found", p))]
        ELSE LET r == IF i = 1 THEN fix_vehicle_file(st.fs, p, io)
                      ELSE fix_multirotor_file(st.fs, p, io)
             IN  [st EXCEPT !.fs = r.fs,
                            !.out = @ \o r.msgs,
                            !.written = @ \cup r.written,
                            !.raised = r.raised,
                            !.failed = IF r.failed THEN @ + 1 ELSE @]

RECURSIVE FixFrom(_, _, _)
FixFrom(i, st, plan) ==
    IF st.raised \/ i > Len(FixTargets) THEN st
    ELSE FixFrom(i + 1, FixTarget(st, i, plan[i]), plan)

\* main past its directory check.  After the two targets it calls
\* verify_ardupilot_backend, which only reads, and create_test_script,
\* which writes test_ardupilot_compatibility.py into the working
\* directory, no target and no backup: neither touches this tree.
fixer_main(files, plan) ==
    LET st == FixFrom(1, FixerStart(files), plan)
    IN  IF st.raised THEN st
        ELSE [st EXCEPT !.out = Append(@, Msg("summary", ""))]

RunFixer ==
    /\ clean
    /\ \E plan \in FixPlans :
        \E st \in {fixer_main(fs, plan)} :
            /\ st.failed = Hits(plan)
            /\ fs' = st.fs
            /\ tool' = "fix"
            /\ pc' = IF st.raised THEN "raised" ELSE "done"
            /\ dry_run' = FALSE
            /\ no_backup' = FALSE
            /\ changes_made' = <<>>
            /\ warnings' = <<>>
            /\ out' = st.out
            /\ written' = st.written
            /\ start' = fs
            /\ clean' = (st.failed = 0)
            /\ modified' = NoteModified(fs, st.fs, "fix", st.failed = 0)
            /\ prev' = Outcome
            /\ unread' = {}
            /\ UNCHANGED <<fs0, textvars, malformed>>

\* main when extensions/pegasus.simulator does not exist: it returns at once
FixerNoDirectory ==
    /\ clean
    /\ ~ExtensionsPopulated
    /\ tool' = "fix"
    /\ pc' = "done"
    /\ dry_run' = FALSE
    /\ no_backup' = FALSE
    /\ changes_made' = <<>>
    /\ warnings' = <<>>
    /\ out' = <<Msg("no_directory", "")>>
    /\ written' = {}
    /\ start' = fs
    /\ clean' = TRUE
    /\ prev' = Outcome
    /\ unread' = {}
    /\ UNCHANGED <<fs, fs0, modified, textvars, malformed>>

Next ==
    \/ RunMigration
    \/ RunFixer
    \/ FixerNoDirectory

Spec == Init /\ [][Next]_vars

(***************************************************************************)
(* The replacement loop of migrate_python_file on its own: any list of at  *)
(* most two literal rules over the words A, B, C, applied to any text of   *)
(* at most MaxLen of these words.                                          *)
(***************************************************************************)
Letters == {"A", "B", "C"}

Texts == UNION {[1..n -> Letters] : n \in 0..MaxLen}

LetterRules == {Rule(Literal(<<a>>), <<b>>) : a \in Letters, b \in Letters}

RuleLists == UNION {[1..n -> LetterRules] : n \in 0..2}

InitRules ==
    /\ fs = <<>>
    /\ fs0 = fs
    /\ start = fs
    /\ tool = "none"
    /\ pc = "idle"
    /\ dry_run = FALSE
    /\ no_backup = FALSE
    /\ changes_made = <<>>
    /\ warnings = <<>>
    /\ out = <<>>
    /\ written = {}
    /\ clean = TRUE
    /\ modified = [p \in TargetSet |-> {}]
    /\ prev = NoRun
    /\ unread = {}
    /\ malformed = WellFormed
    /\ rule_list \in RuleLists
    /\ text_in \in Texts
    /\ text_out = text_in
    /\ rule_matches = <<>>
    /\ steps = <<>>

\* migrate_python_file from "original_content = content" on, in a dry run
\* on a file that holds text_in, with rule_list for PYTHON_REPLACEMENTS:
\* the replacement loop, then "Write if changed"
ApplyRules ==
    /\ pc = "idle"
    /\ \E applied \in {ApplyReplacements(rule_list, text_out)} :
        \E r \in {write_if_changed(vehicle_path :> text_in, vehicle_path,
                                   text_in, applied.content, TRUE, FALSE, "ok")} :
            /\ text_out' = applied.content
            /\ rule_matches' = applied.changes
            /\ changes_made' = IF r.changed THEN Append(changes_made, vehicle_path)
                                ELSE changes_made
    /\ tool' = "rules"
    /\ pc' = "done"
    /\ dry_run' = TRUE
    /\ UNCHANGED <<rule_list, text_in, steps, fs, no_backup, warnings, out, written,
                   fs0, start, clean, modified, prev, unread, malformed>>

NextRules == ApplyRules

SpecRules == InitRules /\ [][NextRules]_vars

(***************************************************************************)
(* The handlers of the two scripts called on one python target, in any     *)
(* order, from a tree that holds only that target.  Its text is made of    *)
(* up to MaxStatements statements: imports the scripts rewrite, the header *)
(* and the last line of get_world_transform_xform, and other code.         *)
(***************************************************************************)
Statements ==
    {dynamic_control_import, core_import,
     <<"def get_world_transform_xform(prim: Usd.Prim):">>,
     <<"return rotation">>, <<"pass">>}

RECURSIVE Concat(_)
Concat(ss) == IF ss = <<>> THEN <<>> ELSE Head(ss) \o Concat(Tail(ss))

SourceTexts ==
    {Concat(ss) : ss \in UNION {[1..n -> Statements] : n \in 0..MaxStatements}}

InitTexts ==
    /\ text_in \in SourceTexts
    /\ \E p \in {vehicle_path, multirotor_path} : fs = (p :> text_in)
    /\ fs0 = fs
    /\ start = fs
    /\ tool = "none"
    /\ pc = "idle"
    /\ dry_run = FALSE
    /\ no_backup = FALSE
    /\ changes_made = <<>>
    /\ warnings = <<>>
    /\ out = <<>>
    /\ written = {}
    /\ clean = TRUE
    /\ modified = [p \in TargetSet |-> {}]
    /\ prev = NoRun
    /\ unread = {}
    /\ malformed = WellFormed
    /\ rule_list = <<>>
    /\ text_out = text_in
    /\ rule_matches = <<>>
    /\ steps = <<>>

\* the target the tree was made for
TheTarget == CHOOSE p \in {vehicle_path, multirotor_path} : p \in DOMAIN fs0

\* fix_vehicle_file(vehicle_path) or fix_multirotor_file(multirotor_path)
FixFile ==
    /\ Len(steps) < MaxSteps
    /\ \E r \in {IF TheTarget = vehicle_path
                  THEN fix_vehicle_file(fs, TheTarget, "ok")
                  ELSE fix_multirotor_file(fs, TheTarget, "ok")} :
        /\ fs' = r.fs
        /\ out' = r.msgs
        /\ written' = r.written
        /\ modified' = NoteModified(fs, r.fs, "fix", TRUE)
    /\ steps' = Append(steps, "fix")
    /\ tool' = "fix"
    /\ pc' = "done"
    /\ dry_run' = FALSE
    /\ no_backup' = FALSE
    /\ changes_made' = <<>>
    /\ warnings' = <<>>
    /\ start' = fs
    /\ UNCHANGED <<fs0, clean, prev, unread, malformed,
                   rule_list, text_in, text_out, rule_matches>>

\* migrate_python_file on the target, by a new MigrationTool that is live
\* and makes backups
MigrateFile ==
    /\ Len(steps) < MaxSteps
    /\ \E r \in {migrate_python_file(fs, TheTarget,
                       ApplyReplacements(PYTHON_REPLACEMENTS, fs[TheTarget]),
                       FALSE, FALSE, "ok")} :
        /\ fs' = r.fs
        /\ out' = r.msgs
        /\ written' = r.written
        /\ modified' = NoteModified(fs, r.fs, "migrate", TRUE)
        /\ changes_made' = IF r.changed THEN <<TheTarget>> ELSE <<>>
        /\ warnings' = IF r.warn THEN <<TheTarget>> ELSE <<>>
    /\ steps' = Append(steps, "migrate")
    /\ tool' = "migrate"
    /\ pc' = "done"
    /\ dry_run' = FALSE
    /\ no_backup' = FALSE
    /\ start' = fs
    /\ UNCHANGED <<fs0, clean, prev, unread, malformed,
                   rule_list, text_in, text_out, rule_matches>>

NextTexts ==
    \/ FixFile
    \/ MigrateFile

SpecTexts == InitTexts /\ [][NextTexts]_vars

(***************************************************************************)
(* fix_ardupilot_for_isaac_4.5.py: verify_ardupilot_backend, called on the *)
(* backends directory.  fs is that directory: backend file -> content.     *)
(* Every read succeeds.                                                    *)
(***************************************************************************)
ardupilot_files ==
    <<"ardupilot_mavlink_backend.py", "tools/ardupilot_launch_tool.py",
      "tools/ArduPilotPlugin.py">>

isaac_imports == <<"omni.isaac", "isaacsim", "omni.usd", "omni.kit">>

\* The terms of isaac_imports that a word holds as substrings, letter case
\* included.  No term holds white space, so "imp in content" is true
\* exactly when some word of the content holds imp.
TermsIn(word) ==
    CASE word = "omni.isaac.core" -> {"omni.isaac"}
      [] word = "isaacsim.core.api" -> {"isaacsim"}
      [] word = "omni.isaacsim" -> {"omni.isaac", "isaacsim"}
      [] word = "omni.usd" -> {"omni.usd"}
      [] word = "omni.kit.app" -> {"omni.kit"}
      [] OTHER -> {}

\* imp in content
HoldsTerm(content, imp) == \E i \in 1..Len(content) : imp \in TermsIn(content[i])

BackendContents ==
    { <<"import", "pymavlink">>,
      <<"import", "Omni.Isaac.Core">>,
      <<"import", "omni.isaac.core">>,
      <<"import", "omni.usd", "import", "pymavlink">>,
      <<"import", "omni.kit.app", "import", "omni.isaacsim">> }

BackendTrees ==
    {[f \in present |-> chosen[f]] :
        present \in SUBSET Range(ardupilot_files),
        chosen \in [Range(ardupilot_files) -> BackendContents]}

\* print(f"  ... {file} contains Isaac Sim imports: {found_imports}")
ContainsImports(file, found_imports) ==
    [ev |-> "contains_imports", file |-> file, found |-> found_imports]

\* A variant of the loop body that counts a missing file as an issue.
VerifyFile_missing_is_issue(st, file) ==
    IF file \in DOMAIN st.fs
    THEN LET content == st.fs[file]
             found_imports == SelectSeq(isaac_imports,
                                        LAMBDA imp : HoldsTerm(content, imp))
         IN  IF found_imports # <<>>
             THEN [st EXCEPT !.out = Append(@, ContainsImports(file, found_imports)),
                             !.issues_found = TRUE]
             ELSE [st EXCEPT !.out = Append(@, Msg("no_dependencies", file))]
    ELSE [st EXCEPT !.out = Append(@, Msg("not_found", file)),
                    !.issues_found = TRUE]

\* the body of "for file in ardupilot_files"
VerifyFile(st, file) ==
    IF file \in DOMAIN st.fs
    THEN LET content == st.fs[file]
             found_imports == SelectSeq(isaac_imports,
                                        LAMBDA imp : HoldsTerm(content, imp))
         IN  IF found_imports # <<>>
             THEN [st EXCEPT !.out = Append(@, ContainsImports(file, found_imports)),
                             !.issues_found = TRUE]
             ELSE [st EXCEPT !.out = Append(@, Msg("no_dependencies", file))]
    ELSE [st EXCEPT !.out = Append(@, Msg("not_found", file))]

RECURSIVE VerifyFrom(_, _)
VerifyFrom(i, st) ==
    IF i > Len(ardupilot_files) THEN st
    ELSE VerifyFrom(i + 1, VerifyFile(st, ardupilot_files[i]))

verify_ardupilot_backend(files) ==
    LET st == VerifyFrom(1, [fs |-> files, out |-> <<Msg("verifying", "")>>,
                             issues_found |-> FALSE])
    IN  IF ~st.issues_found
        THEN [st EXCEPT !.out = Append(@, Msg("clean", ""))]
        ELSE st

InitVerify ==
    /\ fs \in BackendTrees
    /\ fs0 = fs
    /\ start = fs
    /\ tool = "none"
    /\ pc = "idle"
    /\ dry_run = FALSE
    /\ no_backup = FALSE
    /\ changes_made = <<>>
    /\ warnings = <<>>
    /\ out = <<>>
    /\ written = {}
    /\ clean = TRUE
    /\ modified = [p \in TargetSet |-> {}]
    /\ prev = NoRun
    /\ unread = {}
    /\ malformed = WellFormed
    /\ rule_list = <<>>
    /\ text_in = <<>>
    /\ text_out = <<>>
    /\ rule_matches = <<>>
    /\ steps = <<>>

VerifyBackend ==
    /\ pc = "idle"
    /\ \E st \in {verify_ardupilot_backend(fs)} :
        /\ fs' = st.fs
        /\ out' = st.out
    /\ tool' = "verify"
    /\ pc' = "done"
    /\ start' = fs
    /\ UNCHANGED <<dry_run, no_backup, changes_made, warnings, written, fs0,
                   clean, modified, prev, unread, malformed, textvars>>

NextVerify == VerifyBackend

SpecVerify == InitVerify /\ [][NextVerify]_vars

(***************************************************************************)
(* run_migration with a rule list holding a pattern that does not compile. *)
(* The lists are module constants handed to re.findall as strings, one     *)
(* call per rule and file: nothing compiles them before the loops.         *)
(***************************************************************************)
InitMalformed ==
    /\ InitFiles
    /\ malformed \in Malformations

NextMalformed == RunMigration

SpecMalformed == InitMalformed /\ [][NextMalformed]_vars

(***************************************************************************)
(* Properties of the two scripts.                                          *)
(***************************************************************************)
\* the backup paths the two scripts use for target p
BackupPathsOf(p) ==
    {BakPath(p)} \cup
    (IF \E i \in 1..Len(FixTargets) : FixTargets[i] = p
     THEN {ArduPilotBackupPath(p)} ELSE {})

\* the last run was a migration that writes files and makes backups
LiveWithBackups == tool = "migrate" /\ ~dry_run /\ ~no_backup

\* the text the rules make of target p as the last run found it
Migrated(p) ==
    ApplyReplacements(IF IsPython(p) THEN PYTHON_REPLACEMENTS ELSE TOML_REPLACEMENTS,
                      start[p]).content

\* C1: a run_migration that directly follows a live run_migration which
\* returned without a failure reports no modified file and leaves every
\* target's content as it found it.
C1_SecondRunChangesNothing ==
    (tool = "migrate" /\ prev.kind = "live") =>
        /\ changes_made = <<>>
        /\ \A p \in TargetSet \cap DOMAIN start : fs[p] = start[p]

C1_SecondRunAfterRewrite ==
    /\ tool = "migrate" /\ prev.kind = "live" /\ pc = "done" /\ clean
    /\ ~dry_run
    /\ \E p \in TargetSet : "migrate" \in modified[p]

\* C2: a dry run leaves the tree as it found it, and the live run that
\* directly follows a dry run (both without a failure) reports the same
\* modified files, the same files needing attention and the same files
\* not found as the dry run did.
C2_DryRunPure ==
    /\ (tool = "migrate" /\ dry_run) => (fs = start /\ written = {})
    /\ (tool = "migrate" /\ ~dry_run /\ pc = "done" /\ clean /\ prev.kind = "dry") =>
          /\ changes_made = prev.changes_made
          /\ warnings = prev.warnings
          /\ Missing(out) = prev.missing

C2_LiveAfterDry ==
    /\ tool = "migrate" /\ ~dry_run /\ pc = "done" /\ clean
    /\ prev.kind = "dry"
    /\ changes_made # <<>> /\ warnings # <<>> /\ Missing(out) # <<>>
    /\ fs # start

\* C3: no run of either script changes or removes a backup file that
\* exists when the run starts.
C3_BackupNeverOverwritten ==
    [][\A p \in TargetSet : \A b \in BackupPathsOf(p) :
          b \in DOMAIN fs => (b \in DOMAIN fs' /\ fs'[b] = fs[b])]_vars

C3_RewriteWithOldBackup ==
    /\ LiveWithBackups
    /\ \E p \in TargetSet :
          /\ BakPath(p) \in DOMAIN start
          /\ p \in written
          /\ fs[BakPath(p)] = start[BakPath(p)]
          /\ start[BakPath(p)] # start[p]

\* C4: of a target that started without a backup and that both scripts
\* have rewritten (the migration live and with backups, no run with a
\* failure), exactly one backup exists, and it holds the target's
\* content from before the first of these runs.
C4_OneBackupForBothTools ==
    \A p \in TargetSet :
        (modified[p] = {"migrate", "fix"} /\ BackupPathsOf(p) \cap DOMAIN fs0 = {}) =>
            /\ Cardinality(BackupPathsOf(p) \cap DOMAIN fs) = 1
            /\ \A b \in BackupPathsOf(p) \cap DOMAIN fs : fs[b] = fs0[p]

\* C5: a target that the rules leave as it is, is not written and gets no
\* backup in a run_migration, whatever the mode.
C5_UnchangedUntouched ==
    tool = "migrate" =>
        \A p \in TargetSet \cap DOMAIN start :
            Migrated(p) = start[p] =>
                /\ p \notin written
                /\ BakPath(p) \notin written
                /\ fs[p] = start[p]
                /\ BakPath(p) \in DOMAIN fs <=> BakPath(p) \in DOMAIN start
                /\ p \notin {changes_made[i] : i \in 1..Len(changes_made)}

C5_UnchangedInLiveRun ==
    /\ LiveWithBackups /\ pc = "done" /\ clean
    /\ written # {}
    /\ \E p \in TargetSet \cap DOMAIN start :
          /\ Migrated(p) = start[p]
          /\ p \in Processed(out)
          /\ BakPath(p) \notin DOMAIN fs

\* the last run read target p: it printed "Processing" and no read error
WasRead(p) ==
    /\ p \in Processed(out)
    /\ \A i \in 1..Len(out) : ~(out[i].ev = "error_reading" /\ out[i].file = p)

\* the text the last run computed for target p contains "ardupilot" in
\* some letter case
Flagged(p) == Contains(lower(Migrated(p)), "ardupilot")

AtoB == Rule(Literal(<<"A">>), <<"B">>)

BtoC == Rule(Literal(<<"B">>), <<"C">>)

\* C6: a two-rule list rewrites a text as the second rule rewrites what
\* the first rule made of it; so A->B then B->C turns "A" into "C", and
\* B->C then A->B turns "A" into "B".
C6_RulesInListOrder ==
    (tool = "rules" /\ pc = "done") =>
        /\ Len(rule_list) = 2 =>
              text_out = sub(rule_list[2].old_pattern, rule_list[2].new_pattern,
                             sub(rule_list[1].old_pattern, rule_list[1].new_pattern,
                                 text_in))
        /\ (rule_list = <<AtoB, BtoC>> /\ text_in = <<"A">>) => text_out = <<"C">>
        /\ (rule_list = <<BtoC, AtoB>> /\ text_in = <<"A">>) => text_out = <<"B">>

C6_ChainedRewrite ==
    /\ tool = "rules" /\ pc = "done"
    /\ rule_list = <<AtoB, BtoC>>
    /\ text_in = <<"A">>
    /\ text_out = <<"C">>

\* C7: a run_migration that meets no failing file operation returns
\* normally whatever targets are missing; and when it returns normally,
\* every target that does not exist is printed as not found and every
\* target that exists is processed.
C7_MissingFilesTolerated ==
    tool = "migrate" =>
        /\ clean => pc = "done"
        /\ pc = "done" =>
              \A p \in TargetSet :
                  IF p \in DOMAIN start
                  THEN p \in Processed(out) /\ p \notin Range(Missing(out))
                  ELSE p \in Range(Missing(out)) /\ p \notin Processed(out)

C7_MissingThenProcessed ==
    /\ tool = "migrate" /\ pc = "done"
    /\ vehicle_path \notin DOMAIN start
    /\ Missing(out) # <<>>
    /\ changes_made # <<>>

C9_NoOverwriteWithoutBackup ==
    /\ LiveWithBackups =>
          \A p \in TargetSet : p \in written => BakPath(p) \in DOMAIN fs
    /\ tool = "fix" =>
          \A p \in Range(FixTargets) :
              p \in written => ArduPilotBackupPath(p) \in DOMAIN fs

C9_BackupThenOverwrite ==
    /\ LiveWithBackups
    /\ \E p \in TargetSet :
          /\ p \in written
          /\ BakPath(p) \in written
          /\ fs[BakPath(p)] = start[p]
          /\ fs[p] # start[p]

\* C10: whatever file operation fails, run_migration returns normally and
\* has processed every target that exists.
C10_ErrorsNeverAbort ==
    tool = "migrate" =>
        /\ pc = "done"
        /\ \A p \in TargetSet \cap DOMAIN start : p \in Processed(out)


\* C11: a malformed rule pattern anywhere in the python or the toml rule
\* list aborts the run before any target file or backup file is written:
\* a migration run with such a list has written no path.
C11_MalformedAbortsBeforeWrites ==
    (tool = "migrate" /\ malformed # WellFormed) => written = {}


\* the terms the scan of migrate_python_file names
attention_terms == {"ardupilot", "ArduPilot"}

\* C12: the attention scan is a case-sensitive substring search per term:
\* a python target is in warnings only if the content the run computed for
\* it contains one of the scan's terms in exactly that letter case.
C12_FlaggedOnlyInExactCase ==
    tool = "migrate" =>
        \A p \in Range(warnings) :
            \E term \in attention_terms : Contains(Migrated(p), term)


\* the indices of the rules the loop noted as matched
MatchedRules == {rule_matches[k].rule : k \in 1..Len(rule_matches)}

\* the text rule i of rule_list is applied to: what the rules before it
\* made of text_in
TextBefore(i) == ApplyReplacements(SubSeq(rule_list, 1, i - 1), text_in).content

\* C13: the file is appended to changes_made exactly when the text after
\* all rules differs from the original text; and a rule is noted as
\* matched exactly when its pattern occurs in the text it is applied to,
\* also when its substitution leaves that text as it was.
C13_ChangedIffTextDiffers ==
    (tool = "rules" /\ pc = "done") =>
        /\ (changes_made # <<>>) <=> (text_out # text_in)
        /\ \A i \in 1..Len(rule_list) :
              (i \in MatchedRules) <=>
                  (findall(rule_list[i].old_pattern, TextBefore(i)) # <<>>)

C13_MatchedButUnchanged ==
    /\ tool = "rules" /\ pc = "done"
    /\ \E i \in MatchedRules :
          sub(rule_list[i].old_pattern, rule_list[i].new_pattern, TextBefore(i))
              = TextBefore(i)
    /\ text_out = text_in
    /\ changes_made = <<>>


\* the place of target p in the order run_migration takes the targets in
TargetIndex(p) == CHOOSE i \in 1..Len(Targets) : Targets[i] = p

\* seq holds targets in the order of Targets, none of them twice
InTargetOrder(seq) ==
    \A i, j \in 1..Len(seq) :
        i < j => TargetIndex(seq[i]) < TargetIndex(seq[j])

\* C14: after run_migration the changed files and the missing files are
\* listed in the order of the targets, python before toml, each path at
\* most once, and no path is in warnings twice.
C14_ReportInTargetOrder ==
    tool = "migrate" =>
        /\ InTargetOrder(changes_made)
        /\ InTargetOrder(Missing(out))
        /\ \A i, j \in 1..Len(warnings) : i < j => warnings[i] # warnings[j]

C14_SeveralChangedOneMissing ==
    /\ tool = "migrate" /\ pc = "done"
    /\ Len(changes_made) = 2
    /\ changes_made[2] = extension_toml
    /\ Len(Missing(out)) = 1
    /\ warnings # <<>>


\* the last run printed event ev for file p
Said(ev, p) == \E i \in 1..Len(out) : out[i].ev = ev /\ out[i].file = p

\* C15: what run_migration reports for a target tells a file it could not
\* read from one that needs no changes: "Error reading file" is printed
\* for exactly the targets whose read failed and for them neither "No
\* changes needed" nor "Updated"; "No changes needed" is printed only for
\* a file that was read and whose text the rules leave as it is; and when
\* the run returns, every existing target has exactly one of the three.
C15_ReadErrorToldFromUnchanged ==
    tool = "migrate" =>
        \A p \in TargetSet \cap DOMAIN start :
            /\ p \in Processed(out) =>
                  /\ p \in unread <=> Said("error_reading", p)
                  /\ p \in unread => ~Said("no_changes", p) /\ ~Said("updated", p)
                  /\ Said("no_changes", p) => Migrated(p) = start[p]
                  /\ Said("updated", p) => Migrated(p) # start[p]
            /\ pc = "done" =>
                  Cardinality({ev \in {"error_reading", "no_changes", "updated"} :
                                   Said(ev, p)}) = 1

C15_OneUnreadOneUnchanged ==
    /\ tool = "migrate" /\ pc = "done"
    /\ \E p, q \in TargetSet \cap DOMAIN start :
          /\ p \in unread /\ Said("error_reading", p)
          /\ Migrated(p) = start[p]
          /\ q \notin unread /\ Said("no_changes", q)
          /\ p \notin Range(changes_made) /\ q \notin Range(changes_made)


\* C16: fix_vehicle_file is idempotent: whatever vehicle.py holds, after
\* two calls it holds what it held after the first, which is the fixed
\* form of its first text.
C16_FixVehicleIdempotent ==
    (TheTarget = vehicle_path /\ steps = <<"fix", "fix">>) =>
        fs[vehicle_path] = FixVehicleContent(text_in)


\* C17: a fixer run that finds nothing to rewrite in a target leaves it
\* untouched: it neither writes the target nor creates its backup.
C17_FixerLeavesUnchangedAlone ==
    (tool = "fix" /\ pc = "done") =>
        \A p \in Range(FixTargets) \cap DOMAIN start :
            fs[p] = start[p] =>
                (p \notin written /\ ArduPilotBackupPath(p) \notin written)


\* the targets whose text the rules change, as the last run found them
ChangedTargets == {p \in TargetSet \cap DOMAIN start : Migrated(p) # start[p]}

\* C18: run_migration creates or modifies no path but the targets whose
\* text the rules change and the ".bak" paths of those targets; every
\* other path of the tree, unchanged targets and the other script's
\* backups among them, is there as before with the content it had; a dry
\* run writes nothing; and a backup is created only in a live run with
\* backups enabled, where none existed.
C18_OnlyChangedTargetsAndBackups ==
    tool = "migrate" =>
        \A changed \in {ChangedTargets} :
        \A backups \in {{BakPath(p) : p \in changed}} :
            /\ written \subseteq changed \cup backups
            /\ \A q \in DOMAIN start \cup DOMAIN fs :
                  q \notin changed =>
                      /\ q \in DOMAIN fs
                      /\ q \in DOMAIN start \/ q \in backups
                      /\ q \in DOMAIN start => fs[q] = start[q]
            /\ dry_run => fs = start
            /\ \A p \in TargetSet :
                  BakPath(p) \in DOMAIN fs \ DOMAIN start =>
                      ~dry_run /\ ~no_backup /\ fs[BakPath(p)] = start[p]

C18_RewriteAmongOtherFiles ==
    /\ LiveWithBackups /\ pc = "done"
    /\ \E p \in ChangedTargets :
          /\ fs[p] # start[p]
          /\ BakPath(p) \in DOMAIN fs \ DOMAIN start
    /\ \E p \in ChangedTargets : fs[p] # start[p] /\ BakPath(p) \in DOMAIN start
    /\ \E q \in DOMAIN start : q = ArduPilotBackupPath(vehicle_path)
    /\ \E u \in TargetSet \cap DOMAIN start : u \notin ChangedTargets


\* what the fixer makes of the text of the target, and what the python
\* rules make of it
FixedText(content) ==
    IF TheTarget = vehicle_path THEN FixVehicleContent(content)
    ELSE FixMultirotorContent(content)

MigratedText(content) == ApplyReplacements(PYTHON_REPLACEMENTS, content).content

\* C19: on vehicle.py and on multirotor.py the two scripts commute: the
\* fixer and then the migration leave the text that the migration and
\* then the fixer make of the first text, and the other way round.
C19_ToolsCommute ==
    /\ steps = <<"fix", "migrate">> =>
          fs[TheTarget] = FixedText(MigratedText(text_in))
    /\ steps = <<"migrate", "fix">> =>
          fs[TheTarget] = MigratedText(FixedText(text_in))

C19_BothRewriteTheFile ==
    /\ steps = <<"fix", "migrate">>
    /\ TheTarget = vehicle_path
    /\ fs[TheTarget] # FixedText(text_in)
    /\ fs[TheTarget] # MigratedText(text_in)
    /\ FixedText(text_in) # text_in
    /\ Contains(text_in, "return rotation")
    /\ fs[TheTarget] = FixedText(MigratedText(text_in))


\* the terms of isaac_imports that the existing backend file f holds
TermsPresent(f) ==
    {isaac_imports[k] : k \in {j \in 1..Len(isaac_imports) :
                                   HoldsTerm(start[f], isaac_imports[j])}}

\* C20: verify_ardupilot_backend modifies no file; it prints the clean
\* verdict exactly when no existing backend file holds a term of
\* isaac_imports; it prints "not found" for exactly the missing files,
\* which do not count as issues; and for an existing file it lists exactly
\* the terms the file holds.
C20_VerifyOnlyReads ==
    tool = "verify" =>
        /\ fs = start
        /\ Said("clean", "") <=>
              \A f \in DOMAIN start : TermsPresent(f) = {}
        /\ \A i \in 1..Len(ardupilot_files) :
              \A f \in {ardupilot_files[i]} :
                  /\ f \notin DOMAIN start <=> Said("not_found", f)
                  /\ f \notin DOMAIN start =>
                        ~Said("contains_imports", f) /\ ~Said("no_dependencies", f)
                  /\ f \in DOMAIN start =>
                        /\ Said("no_dependencies", f) <=> TermsPresent(f) = {}
                        /\ TermsPresent(f) # {} =>
                              \E k \in 1..Len(out) :
                                  /\ out[k].ev = "contains_imports"
                                  /\ out[k].file = f
                                  /\ Range(out[k].found) = TermsPresent(f)

C20_CleanWhenAllAbsent ==
    /\ tool = "verify" /\ pc = "done"
    /\ DOMAIN start = {}
    /\ \A i \in 1..Len(ardupilot_files) : Said("not_found", ardupilot_files[i])
    /\ Said("clean", "")

=============================================================================
